---------------------------- MODULE Spec2Model ----------------------------
(***************************************************************************)
(* Model of Main.py of HTML-Table-Processor: the extraction loop, the      *)
(* cleaning loop, clean_tables step by step, and store_data writing        *)
(* final_result.csv.                                                       *)
(*                                                                         *)
(* A text is a sequence of one-character strings.  The two missing-value   *)
(* markers of pandas are the one-element sequences NaN and None, which no  *)
(* text equals (their element is not a single character).  File names and  *)
(* the names of the CSV columns are never inspected character by           *)
(* character and are kept as one-element sequences holding the whole       *)
(* name.                                                                   *)
(***************************************************************************)
EXTENDS Integers, Sequences, FiniteSets, TLC

VARIABLES html_files, all_tables, sink, pc, file_no, table_no, first_run,
          df, title, i, j, stored_columns, exc

vars == <<html_files, all_tables, sink, pc, file_no, table_no, first_run,
          df, title, i, j, stored_columns, exc>>

----------------------------------------------------------------------------
(* Bounds of the model *)

MaxRows == 3

MaxFiles == 2

MaxTables == 3

----------------------------------------------------------------------------
(* Cells and texts *)

NaN == <<"NaN">>

None == <<"None">>

isna(c) == c = NaN \/ c = None

notna(c) == ~isna(c)

NoTitle == <<"N", "o", " ", "T", "i", "t", "l", "e">>

Dollar == <<"$">>

Percent == <<"%">>

PercentParen == <<"%", ")">>

PercentSuffix == <<" ", "%">>

\* str(x) of a cell: the text itself, "nan" for numpy's NaN, "None" for None
str(c) ==
  IF c = NaN THEN <<"n", "a", "n">>
  ELSE IF c = None THEN <<"N", "o", "n", "e">>
  ELSE c

RECURSIVE lstrip(_)
lstrip(t) == IF t # <<>> /\ Head(t) = " " THEN lstrip(Tail(t)) ELSE t

RECURSIVE rstrip(_)
rstrip(t) ==
  IF t # <<>> /\ t[Len(t)] = " " THEN rstrip(SubSeq(t, 1, Len(t) - 1)) ELSE t

strip(t) == rstrip(lstrip(t))

contains(t, ch) == \E k \in 1..Len(t) : t[k] = ch

replace(t, old, new) == [k \in 1..Len(t) |-> IF t[k] = old THEN new ELSE t[k]]

----------------------------------------------------------------------------
(* Data frames: rows are sequences of ncols cells, index holds the row     *)
(* labels.  Columns are only ever addressed by position, so their labels   *)
(* are not kept.                                                           *)

Max(S) == IF S = {} THEN 0 ELSE CHOOSE m \in S : \A n \in S : n <= m

Repeat(c, n) == [k \in 1..n |-> c]

\* the elements of s at the positions in keep, in order
Pick(s, keep) ==
  LET pos == SelectSeq([k \in 1..Len(s) |-> k], LAMBDA k : k \in keep)
  IN  [k \in 1..Len(pos) |-> s[pos[k]]]

\* pd.DataFrame(table_data): ragged rows are padded with None
DataFrame(table_data) ==
  LET n == Max({Len(table_data[r]) : r \in 1..Len(table_data)})
  IN  [index |-> [r \in 1..Len(table_data) |-> r - 1],
       ncols |-> n,
       rows  |-> [r \in 1..Len(table_data) |->
                    table_data[r] \o Repeat(None, n - Len(table_data[r]))]]

nrows(d) == Len(d.rows)

\* df.replace("", np.nan)
replace_blank(d) ==
  [d EXCEPT !.rows = [r \in 1..Len(d.rows) |->
     [c \in 1..d.ncols |-> IF d.rows[r][c] = <<>> THEN NaN ELSE d.rows[r][c]]]]

\* df.dropna(axis=1, how="all")
dropna_columns(d) ==
  LET keep == {c \in 1..d.ncols : \E r \in 1..Len(d.rows) : notna(d.rows[r][c])}
  IN  [d EXCEPT !.ncols = Cardinality(keep),
                !.rows = [r \in 1..Len(d.rows) |-> Pick(d.rows[r], keep)]]

\* df.dropna(axis=0, how="all"): the surviving rows keep their labels
dropna_rows(d) ==
  LET keep == {r \in 1..Len(d.rows) : \E c \in 1..d.ncols : notna(d.rows[r][c])}
  IN  [d EXCEPT !.index = Pick(d.index, keep), !.rows = Pick(d.rows, keep)]

\* df.iloc[1:].reset_index(drop=True)
drop_first(d) ==
  LET rest == IF d.rows = <<>> THEN <<>> ELSE Tail(d.rows)
  IN  [d EXCEPT !.rows = rest, !.index = [r \in 1..Len(rest) |-> r - 1]]

present(row) == SelectSeq(row, notna)

missing(row) == Len(row) - Len(present(row))

\* line 164: NaNs first, then the present values in order
shift_right(row) == Repeat(NaN, missing(row)) \o present(row)

\* shift_left without the padding
shift_left_unpadded(row) == present(row)

\* line 190: the present values in order, then NaNs
shift_left(row) == present(row) \o Repeat(NaN, missing(row))

reset_index(d) == [d EXCEPT !.index = [r \in 1..Len(d.rows) |-> r - 1]]

----------------------------------------------------------------------------
(* The steps of clean_tables *)

\* lines 133-137
drop_empty(d) == dropna_rows(dropna_columns(replace_blank(d)))

\* df.iloc[0, 1] raises IndexError without a row 0 or a column 1
title_error(d) == IF nrows(d) < 1 \/ d.ncols < 2 THEN "IndexError" ELSE "none"

title_extraction(d) ==
  LET t == d.rows[1][2]
  IN  IF notna(t) /\ t # <<>> THEN t ELSE NoTitle

\* lines 141-142
drop_title_row(d, t) == IF t # NoTitle THEN drop_first(d) ELSE d

\* merge_pair with the "$" cell left in place
merge_pair_keeps_dollar(row, jj) ==
  LET a == jj + 1
      b == jj + 2
  IN  IF strip(str(row[b])) \in {Percent, PercentParen}
      THEN LET joined == str(row[a]) \o PercentSuffix
           IN  [row EXCEPT ![a] = IF contains(joined, "(")
                                  THEN replace(joined, "(", "-")
                                  ELSE joined,
                           ![b] = NaN]
      ELSE row

\* lines 148-160 on the pair (jj, jj + 1) of one row, jj counted from 0
merge_pair(row, jj) ==
  LET a  == jj + 1
      b  == jj + 2
      r1 == IF row[a] = <<>> THEN [row EXCEPT ![a] = NaN] ELSE row
      r2 == IF strip(str(r1[a])) = Dollar THEN [r1 EXCEPT ![a] = NaN] ELSE r1
  IN  IF strip(str(r2[b])) \in {Percent, PercentParen}
      THEN LET joined == str(r2[a]) \o PercentSuffix
           IN  [r2 EXCEPT ![a] = IF contains(joined, "(")
                                 THEN replace(joined, "(", "-")
                                 ELSE joined,
                          ![b] = NaN]
      ELSE r2

\* the next values of the loop variables (i, j) of lines 146-147, <<-1, -1>>
\* when both loops are exhausted; i = -1 before the first iteration
next_pair(d, ii, jj) ==
  IF ii = -1
  THEN IF nrows(d) >= 1 /\ d.ncols >= 2 THEN <<0, 0>> ELSE <<-1, -1>>
  ELSE IF jj + 1 <= d.ncols - 2 THEN <<ii, jj + 1>>
  ELSE IF ii + 1 <= nrows(d) - 1 THEN <<ii + 1, 0>>
  ELSE <<-1, -1>>

\* lines 164-166
shift_right_and_trim(d) ==
  dropna_columns([d EXCEPT !.rows = [r \in 1..Len(d.rows) |-> shift_right(d.rows[r])]])

\* lines 168-173
count(d) == Len(present(d.rows[1]))

\* the exception lines 168-185 raise, "none" when they complete
repair_error(d, ii) ==
  IF nrows(d) < 1 THEN "IndexError"
  ELSE IF count(d) # 1 THEN "none"
  ELSE IF nrows(d) < 2 THEN "IndexError"
  ELSE IF Len(present(d.rows[2])) + 1 > d.ncols THEN "ValueError"
  ELSE IF ii = -1 THEN "UnboundLocalError"
  ELSE IF \A r \in 1..nrows(d) : d.index[r] # ii THEN "KeyError"
  ELSE "none"

\* line 183: df.drop(index=label)
drop_label(d, label) ==
  LET keep == {r \in 1..nrows(d) : d.index[r] # label}
  IN  [d EXCEPT !.index = Pick(d.index, keep), !.rows = Pick(d.rows, keep)]

\* lines 175-185
single_value_repair(d, ii) ==
  IF count(d) # 1 THEN d
  ELSE
    LET single_value      == present(d.rows[1])[1]
        second_row_values == present(d.rows[2]) \o <<single_value>>
        merged == second_row_values
                    \o Repeat(NaN, d.ncols - Len(second_row_values))
        d1 == [d EXCEPT !.rows[2] = merged]
    IN  drop_first(reset_index(drop_label(d1, ii)))

\* lines 190-193
compact_and_drop_header(d) ==
  drop_first([d EXCEPT !.rows = [r \in 1..Len(d.rows) |-> shift_left(d.rows[r])]])

----------------------------------------------------------------------------
(* store_data and the CSV file *)

\* lines 91-101: the records of one row for the columns col_idx..ncols-1
RECURSIVE row_records(_, _, _, _, _)
row_records(file_name, ttl, columns, row, col_idx) ==
  IF col_idx >= Len(columns) THEN <<>>
  ELSE <<[filename    |-> file_name,
          label       |-> row[1],
          tablename   |-> ttl,
          column_name |-> columns[col_idx + 1],
          value       |-> row[col_idx + 1]]>>
       \o row_records(file_name, ttl, columns, row, col_idx + 1)

\* structured_data with the label column taken for a value column
RECURSIVE structured_data_with_label(_, _, _, _, _)
structured_data_with_label(file_name, ttl, columns, rows, row_idx) ==
  IF row_idx >= Len(rows) THEN <<>>
  ELSE row_records(file_name, ttl, columns, rows[row_idx + 1], 0)
       \o structured_data_with_label(file_name, ttl, columns, rows, row_idx + 1)

\* lines 84-101
RECURSIVE structured_data(_, _, _, _, _)
structured_data(file_name, ttl, columns, rows, row_idx) ==
  IF row_idx >= Len(rows) THEN <<>>
  ELSE row_records(file_name, ttl, columns, rows[row_idx + 1], 1)
       \o structured_data(file_name, ttl, columns, rows, row_idx + 1)

\* line 89: df.iloc[row_idx, 0] raises IndexError in a frame without columns
store_error(d) == IF nrows(d) >= 1 /\ d.ncols < 1 THEN "IndexError" ELSE "none"

\* to_csv writes a missing value as the empty field
csv_field(c) == IF isna(c) THEN <<>> ELSE c

csv_line(rec) ==
  <<rec.filename, csv_field(rec.label), csv_field(rec.tablename),
    csv_field(rec.column_name), csv_field(rec.value)>>

\* the columns of pd.DataFrame(structured_data): the keys of the dicts, none
\* for an empty list
result_columns(records) ==
  IF records = <<>> THEN <<>>
  ELSE <<<<"filename">>, <<"label">>, <<"tablename">>, <<"column name">>, <<"value">>>>

\* lines 103-107: mode 'w' with the header line, or mode 'a' without
to_csv(old, records, first) ==
  LET body == [k \in 1..Len(records) |-> csv_line(records[k])]
  IN  IF first THEN <<result_columns(records)>> \o body ELSE old \o body

\* extract_data putting the tables of a file in front of the earlier ones
extract_data_prepend(tables, file) ==
  [k \in 1..Len(file.tables) |->
     [df |-> DataFrame(file.tables[k]), file_path |-> file.name]] \o tables

\* lines 37-49 for every table of one file
extract_data(tables, file) ==
  tables \o [k \in 1..Len(file.tables) |->
               [df |-> DataFrame(file.tables[k]), file_path |-> file.name]]


----------------------------------------------------------------------------
(* Inputs: the HTML files of the folder and the tables found in them *)

Q1Report == <<"Q", "1", " ", "R", "e", "p", "o", "r", "t">>

Revenue == <<"R", "e", "v", "e", "n", "u", "e">>

Growth == <<"G", "r", "o", "w", "t", "h">>

Decline == <<"D", "e", "c", "l", "i", "n", "e">>

Hundred == <<"1", "0", "0">>

Twelve == <<"1", "2">>

TwelvePercent == <<"1", "2", " ", "%">>

\* rows of cell texts as get_text(strip=True) returns them
SampleRows ==
  { <<<<>>, Q1Report>>,
    <<Revenue, Dollar, Hundred>>,
    <<Growth, Twelve, Percent>>,
    <<Decline, <<"(", "5">>, PercentParen>>,
    <<<<"x">>, NoTitle>>,
    <<<<"r">>, Dollar, Percent>>,
    <<<<"t">>>>,
    <<<<>>, <<>>>>,
    <<<<"k">>, <<"v">>>>,
    <<<<"a">>, <<"b">>, <<"c">>>>,
    <<<<"h">>, <<>>, <<"u">>>>,
    <<Dollar, <<>>>> }

SeqsUpTo(S, n) == UNION {[1..m -> S] : m \in 0..n}

Scenario ==
  << <<<<>>, Q1Report>>,
     <<Revenue, Dollar, Hundred>>,
     <<Growth, Twelve, Percent>> >>

HeaderOnly == << <<<<>>, Q1Report>>, <<<<"k">>, <<"v">>>> >>

OneRecord == << <<<<>>, Q1Report>>, <<<<"k">>, <<"v">>>>, <<<<"k">>, <<"v">>>> >>

FileNames == <<"a.html", "b.html", "c.html", "d.html">>

\* what the file held before the run
InitialSinks == {<<>>, << <<<<"stale">>>> >>}

\* whole runs: the tables the files of the folder hold
RunGrids == {OneRecord, HeaderOnly, <<>>}

RECURSIVE Sum(_, _)
Sum(f, n) == IF n = 0 THEN 0 ELSE f[n] + Sum(f, n - 1)

\* the tables ts dealt to the files in order, counts[k] of them to file k
Split(ts, counts) ==
  [k \in 1..Len(counts) |->
     SubSeq(ts, Sum(counts, k - 1) + 1, Sum(counts, k))]

\* at most MaxFiles files holding at most MaxTables tables between them
RunInputs ==
  UNION { {Split(ts, counts) :
             counts \in {c \in [1..n -> 0..Len(ts)] : Sum(c, n) = Len(ts)}} :
          ts \in SeqsUpTo(RunGrids, MaxTables), n \in 0..MaxFiles }

\* one file with one table, the table drawn from many grids
TableInputs == {<<<<g>>>> : g \in SeqsUpTo(SampleRows, MaxRows)}

Files(input) ==
  [k \in 1..Len(input) |-> [name |-> <<FileNames[k]>>, tables |-> input[k]]]

NoFrame == [index |-> <<>>, ncols |-> 0, rows |-> <<>>]

InitWith(inputs) ==
  /\ html_files \in {Files(input) : input \in inputs}
  /\ sink \in InitialSinks
  /\ all_tables = <<>>
  /\ pc = "extract"
  /\ file_no = 1
  /\ table_no = 1
  /\ first_run = FALSE
  /\ df = NoFrame
  /\ title = <<>>
  /\ i = -1
  /\ j = -1
  /\ stored_columns = <<>>
  /\ exc = "none"

Init == InitWith(RunInputs)

InitTable == InitWith(TableInputs)

----------------------------------------------------------------------------
(* The script *)

\* lines 207-211: one iteration of the extraction loop
Extract ==
  /\ pc = "extract"
  /\ file_no <= Len(html_files)
  /\ all_tables' = extract_data(all_tables, html_files[file_no])
  /\ file_no' = file_no + 1
  /\ UNCHANGED <<html_files, sink, pc, table_no, first_run, df, title, i, j,
                 stored_columns, exc>>

\* line 214, once the extraction loop is exhausted
BeginCleaning ==
  /\ pc = "extract"
  /\ file_no > Len(html_files)
  /\ first_run' = TRUE
  /\ pc' = "loop"
  /\ UNCHANGED <<html_files, all_tables, sink, file_no, table_no, df, title,
                 i, j, stored_columns, exc>>

\* lines 215-217 and 130-137: the next table enters clean_tables
EnterClean ==
  /\ pc = "loop"
  /\ table_no <= Len(all_tables)
  /\ df' = drop_empty(all_tables[table_no].df)
  /\ title' = <<>>
  /\ i' = -1
  /\ j' = -1
  /\ stored_columns' = <<>>
  /\ pc' = "title"
  /\ UNCHANGED <<html_files, all_tables, sink, file_no, table_no, first_run, exc>>

\* an exception leaves clean_tables and the loop of lines 215-219, which
\* catch nothing
Raise(e) ==
  /\ exc' = e
  /\ pc' = "crashed"
  /\ UNCHANGED <<html_files, all_tables, sink, file_no, table_no, first_run,
                 df, title, i, j, stored_columns>>

\* lines 140-142
ExtractTitle ==
  /\ pc = "title"
  /\ IF title_error(df) # "none"
     THEN Raise(title_error(df))
     ELSE /\ title' = title_extraction(df)
          /\ df' = drop_title_row(df, title_extraction(df))
          /\ pc' = "merge"
          /\ UNCHANGED <<html_files, all_tables, sink, file_no, table_no,
                         first_run, i, j, stored_columns, exc>>

\* lines 146-160: one iteration of the inner loop
MergePair ==
  /\ pc = "merge"
  /\ next_pair(df, i, j) # <<-1, -1>>
  /\ LET p == next_pair(df, i, j)
     IN  /\ i' = p[1]
         /\ j' = p[2]
         /\ df' = [df EXCEPT !.rows[p[1] + 1] = merge_pair(@, p[2])]
  /\ UNCHANGED <<html_files, all_tables, sink, pc, file_no, table_no, first_run,
                 title, stored_columns, exc>>

\* lines 164-166, once the loops are exhausted
ShiftRight ==
  /\ pc = "merge"
  /\ next_pair(df, i, j) = <<-1, -1>>
  /\ df' = shift_right_and_trim(df)
  /\ pc' = "repair"
  /\ UNCHANGED <<html_files, all_tables, sink, file_no, table_no, first_run,
                 title, i, j, stored_columns, exc>>

\* lines 168-185
Repair ==
  /\ pc = "repair"
  /\ IF repair_error(df, i) # "none"
     THEN Raise(repair_error(df, i))
     ELSE /\ df' = single_value_repair(df, i)
          /\ pc' = "header"
          /\ UNCHANGED <<html_files, all_tables, sink, file_no, table_no,
                         first_run, title, i, j, stored_columns, exc>>

\* lines 187-193
CaptureHeader ==
  /\ pc = "header"
  /\ IF nrows(df) < 1
     THEN Raise("IndexError")
     ELSE /\ stored_columns' = df.rows[1]
          /\ df' = compact_and_drop_header(df)
          /\ pc' = "store_data"
          /\ UNCHANGED <<html_files, all_tables, sink, file_no, table_no,
                         first_run, title, i, j, exc>>

\* line 195 with store_data, then lines 218-219
StoreData ==
  /\ pc = "store_data"
  /\ IF store_error(df) # "none"
     THEN Raise(store_error(df))
     ELSE /\ sink' = to_csv(sink,
                            structured_data(all_tables[table_no].file_path,
                                            title, stored_columns, df.rows, 0),
                            first_run)
          /\ first_run' = FALSE
          /\ table_no' = table_no + 1
          /\ pc' = "loop"
          /\ UNCHANGED <<html_files, all_tables, file_no, df, title, i, j,
                         stored_columns, exc>>

\* the loop of lines 215-219 is exhausted
Finish ==
  /\ pc = "loop"
  /\ table_no > Len(all_tables)
  /\ pc' = "done"
  /\ UNCHANGED <<html_files, all_tables, sink, file_no, table_no, first_run,
                 df, title, i, j, stored_columns, exc>>

Next ==
  \/ Extract
  \/ BeginCleaning
  \/ EnterClean
  \/ ExtractTitle
  \/ MergePair
  \/ ShiftRight
  \/ Repair
  \/ CaptureHeader
  \/ StoreData
  \/ Finish

Spec == Init /\ [][Next]_vars

SpecTable == InitTable /\ [][Next]_vars


----------------------------------------------------------------------------
(* Properties *)

FiveColumnHeader ==
  <<<<"filename">>, <<"label">>, <<"tablename">>, <<"column name">>, <<"value">>>>

\* the grid of the only table of a one-table run
TheGrid == html_files[1].tables[1]

OneTableRun == Len(html_files) = 1 /\ Len(html_files[1].tables) = 1

\* C1 as stated: the scenario grid, cleaned with first_run = TRUE, leaves two
\* records in the file, both of table "Q1 Report": Revenue / 100, then
\* Growth / 12 %.
C1_TwoRecords ==
  (OneTableRun /\ TheGrid = Scenario /\ pc = "done") =>
    /\ Len(sink) = 3
    /\ sink[2][2] = Revenue /\ sink[2][3] = Q1Report /\ sink[2][5] = Hundred
    /\ sink[3][2] = Growth /\ sink[3][3] = Q1Report /\ sink[3][5] = TwelvePercent

\* C1 amended: the scenario grid leaves the header line and one record in the
\* file: table "Q1 Report", label Growth, column name 100, value 12 %; the
\* Revenue row is the captured header.
C1_OneRecord ==
  (OneTableRun /\ TheGrid = Scenario /\ pc = "done") =>
    sink = <<FiveColumnHeader,
             <<<<"a.html">>, Growth, Q1Report, Hundred, TwelvePercent>>>>

C1_Witness ==
  OneTableRun /\ TheGrid = Scenario /\ pc = "done" /\ Len(sink) = 2

\* C2: a table whose normalization fails is skipped and the run goes on to the
\* tables after it: the run never stops at a table of the list.
C2_ErrorIsolation == ~(pc = "crashed" /\ table_no <= Len(all_tables))

\* C3: a grid with fewer than 2 rows after blank normalization and the removal
\* of empty columns and rows never gets as far as store_data, and a frame with
\* no row left after the single-value repair ends in an error with the file
\* untouched.
C3_MalformedRejected ==
  [][/\ pc = "store_data" => nrows(drop_empty(all_tables[table_no].df)) >= 2
     /\ (pc = "header" /\ nrows(df) < 1) => (pc' = "crashed" /\ sink' = sink)]_vars

\* C4: whatever text T the cell at row 0, column 1 holds after the removal of
\* empty columns and rows, the title is T and row 0 is dropped before the
\* merge; with no text there the title is "No Title" and no row is dropped.
C4_TitleRule ==
  [][(pc = "title" /\ title_error(df) = "none") =>
       LET t == df.rows[1][2]
       IN  IF notna(t) /\ t # <<>>
           THEN title' = t /\ df'.rows = Tail(df.rows) /\ pc' = "merge"
           ELSE title' = NoTitle /\ df'.rows = df.rows /\ pc' = "merge"]_vars

\* the number of tables in the first f files
RECURSIVE TablesUpTo(_)
TablesUpTo(f) == IF f = 0 THEN 0 ELSE Len(html_files[f].tables) + TablesUpTo(f - 1)

\* the tables of the first f files in file order, then table order
RECURSIVE TablesInOrder(_)
TablesInOrder(f) ==
  IF f = 0 THEN <<>>
  ELSE TablesInOrder(f - 1)
       \o [k \in 1..Len(html_files[f].tables) |->
             [df |-> DataFrame(html_files[f].tables[k]),
              file_path |-> html_files[f].name]]

\* C5 as stated: once file f + 1 has been extracted, every table of the files
\* up to f has been normalized and emitted.
C5_FileByFile ==
  \A f \in 1..(Len(html_files) - 1) :
    file_no > f + 1 => table_no > TablesUpTo(f)

\* C5 amended: no table is normalized before every file has been extracted;
\* the tables then stand in all_tables in file order, then table order.
C5_ExtractAllFirst ==
  pc # "extract" =>
    /\ file_no = Len(html_files) + 1
    /\ all_tables = TablesInOrder(Len(html_files))

C5_Witness ==
  /\ pc = "store_data"
  /\ table_no = 2
  /\ Len(html_files) = 2
  /\ html_files[1].tables # <<>>
  /\ html_files[2].tables # <<>>

\* C6: a finished run over at least one table leaves a file whose first line
\* is the five-column header, with no other header line and nothing of the
\* old content, and only the first store_data call has first_run = TRUE.
C6_FirstWrite ==
  /\ pc = "store_data" => (first_run <=> table_no = 1)
  /\ (pc = "done" /\ Len(all_tables) >= 1) =>
       /\ sink # <<>>
       /\ sink[1] = FiveColumnHeader
       /\ \A k \in 2..Len(sink) : Len(sink[k]) = 5 /\ sink[k] # FiveColumnHeader

\* C7: a store_data call that returns for a table of R data rows and C
\* columns adds R * (C - 1) lines to the file, row by row and column by
\* column: file name, cell (r, 0), title, ColumnName[c], cell (r, c).
C7_TidyEmission ==
  [][(pc = "store_data" /\ pc' = "loop") =>
       LET R    == nrows(df)
           C    == Len(stored_columns)
           base == IF first_run THEN 1 ELSE Len(sink)
       IN  /\ Len(sink') = base + R * (C - 1)
           /\ \A r \in 1..R : \A c \in 2..C :
                sink'[base + (r - 1) * (C - 1) + (c - 1)] =
                  <<all_tables[table_no].file_path,
                    csv_field(df.rows[r][1]),
                    title,
                    csv_field(stored_columns[c]),
                    csv_field(df.rows[r][c])>>]_vars

C7_Witness ==
  /\ pc = "done"
  /\ OneTableRun
  /\ nrows(df) >= 2
  /\ Len(stored_columns) >= 3
  /\ Len(sink) = 1 + nrows(df) * (Len(stored_columns) - 1)

\* C8: every data row of the table handed to store_data has as many cells as
\* the captured header.
C8_ColumnCount ==
  pc = "store_data" =>
    /\ df.ncols = Len(stored_columns)
    /\ \A r \in 1..nrows(df) : Len(df.rows[r]) = Len(stored_columns)

\* a table that went through the title drop and the single-value repair
C8_Witness ==
  /\ pc = "store_data"
  /\ title # NoTitle
  /\ nrows(df) >= 1
  /\ Len(stored_columns) >= 2
  /\ \E r \in 1..nrows(df) : \E c \in 1..df.ncols : isna(df.rows[r][c])

\* C9: when row 0 holds exactly one value and row 1 has room for it, the
\* repair removes row 0 and the merged row and no other row, so the rows left
\* are the rows that followed the merged row.
C9_SingleValueRepair ==
  [][(/\ pc = "repair"
      /\ nrows(df) >= 2
      /\ count(df) = 1
      /\ Len(present(df.rows[2])) + 1 <= df.ncols) =>
       /\ pc' = "header"
       /\ df'.rows = SubSeq(df.rows, 3, nrows(df))]_vars

\* C10: when the scan visits a pair whose right cell is "%" or "%)", the right
\* cell becomes absent and the left cell becomes its own text (none when it is
\* absent or the "$" being cleared) followed by " %", each "(" turned to "-".
C10_PercentMerge ==
  [][(pc = "merge" /\ next_pair(df, i, j) # <<-1, -1>>) =>
       LET p    == next_pair(df, i, j)
           row  == df.rows[p[1] + 1]
           a    == p[2] + 1
           b    == p[2] + 2
           text == IF isna(row[a]) \/ row[a] = Dollar THEN <<>> ELSE row[a]
       IN  row[b] \in {Percent, PercentParen} =>
             /\ df'.rows[p[1] + 1][b] = NaN
             /\ df'.rows[p[1] + 1][a] = replace(text \o PercentSuffix, "(", "-")]_vars

=============================================================================
